---------------------------- MODULE Spec2Model ----------------------------
(***************************************************************************)
(* A model of astroid/raw_building.py: the builder that reflects a living  *)
(* module into an astroid tree (InspectBuilder), the node factory helpers  *)
(* it uses, and the bootstrap of the builtins module and of the constant   *)
(* proxies that runs when the module is imported.                          *)
(*                                                                         *)
(* Living objects and names are strings.  Astroid nodes live in the        *)
(* sequence `nodes`; a node's identity is its index, 0 stands for None.    *)
(* object_build is recursive: the model keeps its call stack in `stack`    *)
(* and takes one step per iteration of its loop over dir(obj).             *)
(***************************************************************************)
EXTENDS Naturals, Sequences, FiniteSets, TLC

\* Bounds of the model.
MaxBuilds == 1      \* inspect_build calls made by clients after the import
MaxDepth == 4       \* frames of object_build on the call stack

None == "None"
EmptyMap == [n \in {} |-> <<>>]

(***************************************************************************)
(* The living objects.  `kind` is what the inspect predicates report,      *)
(* `module` is __module__ ("None" when absent, "RAISES" when reading it    *)
(* raises), `file` is co_filename of the code object ("None" when the      *)
(* object has no code object), `self` is __self__, `func` is the function  *)
(* of a method, `type` the class of a constant, `exc` whether a class is a *)
(* subclass of Exception, `instdict` the items of the __dict__ of its      *)
(* instance, `raises` whether calling it without arguments may raise,      *)
(* `bases` the names of its bases, `dir` is dir(obj), sorted as Python     *)
(* sorts it, and `attr` the value of each name.                            *)
(***************************************************************************)
Blank ==
    [kind |-> "other", name |-> None, module |-> None, file |-> None,
     self |-> None, func |-> None, type |-> None, exc |-> FALSE,
     args |-> <<>>, defaults |-> <<>>, bases |-> <<>>, instdict |-> <<>>,
     raises |-> FALSE, path |-> FALSE, dir |-> <<>>, attr |-> EmptyMap]

Class(name, module, bases, dir, attr) ==
    [Blank EXCEPT !.kind = "class", !.name = name, !.module = module,
                  !.bases = bases, !.dir = dir, !.attr = attr]

Function(name, module, file, args, defaults) ==
    [Blank EXCEPT !.kind = "function", !.name = name, !.module = module,
                  !.file = file, !.args = args, !.defaults = defaults]

Builtin(name, module, self) ==
    [Blank EXCEPT !.kind = "builtin", !.name = name, !.module = module,
                  !.self = self]

Const(type) == [Blank EXCEPT !.kind = "const", !.type = type]

Module(name, file, dir, attr) ==
    [Blank EXCEPT !.kind = "module", !.name = name, !.file = file,
                  !.dir = dir, !.attr = attr]

ClassOnly == <<"__class__">>
ToType == "__class__" :> "type"

Heap ==
    \* the builtins module and what the model keeps of it
    "builtins" :> Module("builtins", None,
        <<"Exception", "None", "NotImplemented", "__doc__", "dict", "int",
          "len", "list", "set", "str", "tuple", "type">>,
        ("Exception" :> "Exception" @@ "None" :> "none"
         @@ "NotImplemented" :> "notimplemented" @@ "__doc__" :> "docstring"
         @@ "dict" :> "dict" @@ "int" :> "int" @@ "len" :> "len"
         @@ "list" :> "list" @@ "set" :> "set" @@ "str" :> "str"
         @@ "tuple" :> "tuple" @@ "type" :> "type"))
    @@ "Exception" :> [Class("Exception", "builtins", <<"object">>,
                             <<"__class__", "__new__", "args">>,
                             ("__class__" :> "type" @@ "__new__" :> "object_new"
                              @@ "args" :> "args"))
                       EXCEPT !.exc = TRUE]
    @@ "dict" :> Class("dict", "builtins", <<"object">>, ClassOnly, ToType)
    @@ "int" :> Class("int", "builtins", <<"object">>,
                      <<"__add__", "__class__", "real">>,
                      ("__add__" :> "__add__" @@ "__class__" :> "type"
                       @@ "real" :> "real"))
    @@ "list" :> Class("list", "builtins", <<"object">>, ClassOnly, ToType)
    @@ "set" :> Class("set", "builtins", <<"object">>, ClassOnly, ToType)
    @@ "str" :> Class("str", "builtins", <<"object">>, ClassOnly, ToType)
    @@ "tuple" :> Class("tuple", "builtins", <<"object">>, ClassOnly, ToType)
    @@ "type" :> Class("type", "builtins", <<"object">>, ClassOnly, ToType)
    @@ "generator" :> Class("generator", "builtins", <<"object">>,
                            <<"__class__", "send">>,
                            ("__class__" :> "type" @@ "send" :> "send"))
    @@ "len" :> Builtin("len", "builtins", None)
    @@ "object_new" :> Builtin("__new__", None, None)
    @@ "__add__" :> [Blank EXCEPT !.kind = "methoddescriptor", !.name = "__add__"]
    @@ "send" :> [Blank EXCEPT !.kind = "methoddescriptor", !.name = "send"]
    @@ "args" :> [Blank EXCEPT !.kind = "datadescriptor", !.name = "args"]
    @@ "real" :> [Blank EXCEPT !.kind = "datadescriptor", !.name = "real"]
    @@ "none" :> Const("NoneType")
    @@ "notimplemented" :> Const("NotImplementedType")
    @@ "docstring" :> Const("str")
    @@ "seven" :> Const("int")
    @@ "one" :> Const("int")
    @@ "two" :> Const("int")
    \* a client module m, with one member of every sort the builder tells apart
    @@ "m" :> Module("m", "m.py",
        <<"A", "Alias", "E", "X", "Y", "__doc__", "bad", "c", "f", "f2", "g",
          "h", "k", "len", "mbi", "o", "open", "r", "str", "w", "z">>,
        ("A" :> "A" @@ "Alias" :> "A" @@ "E" :> "E" @@ "X" :> "X" @@ "Y" :> "Y"
         @@ "__doc__" :> "docstring" @@ "bad" :> "instance" @@ "c" :> "seven"
         @@ "f" :> "f" @@ "f2" :> "f" @@ "g" :> "g" @@ "h" :> "h" @@ "k" :> "k"
         @@ "len" :> "len" @@ "mbi" :> "mbi" @@ "o" :> "instance"
         @@ "open" :> "open" @@ "r" :> "r" @@ "str" :> "nomodule"
         @@ "w" :> "W" @@ "z" :> "Z"))
    @@ "A" :> Class("A", "m", <<"object">>, <<"__class__", "b", "meth">>,
                    ("__class__" :> "type" @@ "b" :> "A" @@ "meth" :> "A.meth"))
    @@ "E" :> [Class("E", "m", <<"Exception">>, <<"__class__", "__new__">>,
                     ("__class__" :> "type" @@ "__new__" :> "object_new"))
               EXCEPT !.exc = TRUE, !.raises = TRUE,
                      !.instdict = << <<"code", "two">> >>]
    @@ "X" :> Class("X", "other", <<"object">>, ClassOnly, ToType)
    @@ "W" :> Class("W", "other", <<"object">>, ClassOnly, ToType)
    @@ "Y" :> Class("Y", None, <<>>, ClassOnly, ToType)
    @@ "Z" :> Class("Z", "RAISES", <<>>, ClassOnly, ToType)
    @@ "A.meth" :> [Blank EXCEPT !.kind = "method", !.func = "f"]
    @@ "f" :> Function("f", "m", "m.py", <<"x", "y">>, <<"one">>)
    @@ "g" :> Function("g", "other", "other.py", <<>>, <<>>)
    @@ "h" :> Function("h", "m", None, <<>>, <<>>)
    @@ "k" :> Function("k", "m", "m.py", <<>>, <<>>)
    @@ "mbi" :> Builtin("mbi", "m", None)
    @@ "nomodule" :> Builtin("str", None, None)
    @@ "r" :> [Blank EXCEPT !.kind = "routine", !.name = "r"]
    @@ "instance" :> Blank
    \* the _io extension module, which calls itself io (bugs.python.org 18602)
    @@ "_io" :> Module("_io", None, <<"StringIO", "open", "read">>,
                       ("StringIO" :> "StringIO" @@ "open" :> "open"
                        @@ "read" :> "read"))
    @@ "StringIO" :> Class("StringIO", "_io", <<"object">>, ClassOnly, ToType)
    @@ "open" :> Builtin("open", "io", "_io")
    @@ "read" :> Builtin("read", "_io", "_io")
    \* io, the public module, which hands out what _io defines
    @@ "io" :> Module("io", "io.py", <<"StringIO", "len", "open", "read">>,
                      ("StringIO" :> "StringIO" @@ "len" :> "len"
                       @@ "open" :> "open" @@ "read" :> "read"))
    @@ "other" :> Module("other", "other.py", <<"X", "g">>,
                         ("X" :> "X" @@ "g" :> "g"))

Objects == DOMAIN Heap

\* Names whose getattr runs code of the living object, and may raise.
Flaky == {<<"m", "bad">>}
\* Names every object answers to, inherited from `object`.
ObjectNames == {"__class__", "__new__", "__subclasshook__", "__doc__"}
\* The modules that inspect_build is given after the import.
ClientModules == {"m", "_io", "io", "builtins"}

(***************************************************************************)
(* Astroid nodes.  Arguments is folded into its FunctionDef (args is the   *)
(* Arguments' args: none |-> TRUE is Python's None, elts the Name nodes).  *)
(* `object` is "absent" on a node that has no such attribute, lineno 0 is  *)
(* Python's None.  `of` and `inv` are history fields: the living object    *)
(* the node was built for and the builder invocation that built it.        *)
(***************************************************************************)
_marker == "_marker"

Node(kind, name) ==
    [kind |-> kind, name |-> name, parent |-> 0, locals |-> EmptyMap,
     object |-> "absent", value |-> None,
     args |-> [none |-> FALSE, elts |-> <<>>], defaults |-> <<>>,
     bases |-> <<>>, instance_attrs |-> EmptyMap, modname |-> None,
     names |-> <<>>, lineno |-> 0, newstyle |-> FALSE, package |-> FALSE,
     file |-> None, of |-> None, inv |-> 0]

\* Python's `a or b` on names, None being false.
Or(a, b) == IF a # None THEN a ELSE b

Range(s) == {s[i] : i \in DOMAIN s}

\* node_classes.CONST_CLS: the recognized constant types and their node class.
CONST_CLS ==
    "list" :> "List" @@ "tuple" :> "Tuple" @@ "dict" :> "Dict" @@ "set" :> "Set"
    @@ "NoneType" :> "Const" @@ "NotImplementedType" :> "Const"
    @@ "int" :> "Const" @@ "str" :> "Const"

_CONSTANTS == DOMAIN CONST_CLS

\* The names a node class reserves (special_attributes of Module and ClassDef).
special_attributes(kind) ==
    CASE kind = "Module" -> {"__name__", "__doc__", "__file__", "__path__", "__dict__"}
      [] kind = "ClassDef" -> {"__name__", "__module__", "__dict__", "__bases__",
                               "__doc__", "__mro__", "__subclasses__"}
      [] OTHER -> {}

\* nodes.const_factory: the node of a constant value.
const_factory(value) ==
    [Node(CONST_CLS[Heap[value].type], None) EXCEPT !.value = value, !.of = value]

\* LocalsDictNodeNG.set_local: locals.setdefault(name, []).append(stmt)
set_local(ns, node, name, stmt) ==
    [ns EXCEPT ![node].locals =
        IF name \in DOMAIN @ THEN [@ EXCEPT ![name] = Append(@, stmt)]
        ELSE (name :> <<stmt>>) @@ @]

\* LocalsDictNodeNG.add_local_node: the child becomes a child of the scope,
\* unless it is bound as __class__, and is bound under name or its own name.
add_local_node(ns, node, child_node, name) ==
    LET ns1 == IF name # "__class__"
               THEN [ns EXCEPT ![child_node].parent = node] ELSE ns
    IN set_local(ns1, node, Or(name, ns1[child_node].name), child_node)

_attach_local_node(ns, parent, node, name) ==
    add_local_node([ns EXCEPT ![node].name = name], parent, node, None)

attach_dummy_node(ns, node, name, object) ==
    LET enode == [Node("EmptyNode", None) EXCEPT !.object = object]
    IN _attach_local_node(Append(ns, enode), node, Len(ns) + 1, name)

\* EmptyNode.has_underlying_object
_has_underlying_object(n) == n.object # "absent" /\ n.object # _marker

NoSpecialGuard_attach_const_node(ns, node, name, value) ==
    _attach_local_node(Append(ns, const_factory(value)), node, Len(ns) + 1, name)

attach_const_node(ns, node, name, value) ==
    IF name \notin special_attributes(ns[node].kind)
    THEN _attach_local_node(Append(ns, const_factory(value)), node, Len(ns) + 1, name)
    ELSE ns

attach_import_node(ns, node, modname, membername) ==
    LET from_node == [Node("ImportFrom", None) EXCEPT !.modname = modname,
                                                      !.names = <<membername>>]
    IN _attach_local_node(Append(ns, from_node), node, Len(ns) + 1, membername)

\* build_module: the new Module is node Len(ns) + 1.
build_module(ns, name) == Append(ns, Node("Module", name))

\* build_class: the new ClassDef is node Len(ns) + 1, its bases follow it.
build_class(ns, name, basenames) ==
    LET k == Len(ns) + 1
        klass == [Node("ClassDef", name) EXCEPT
                     !.bases = [i \in 1..Len(basenames) |-> k + i]]
    IN Append(ns, klass)
       \o [i \in 1..Len(basenames) |->
              [Node("Name", basenames[i]) EXCEPT !.parent = k]]

\* register_arguments(func), args being the Name nodes ids[from..]
RECURSIVE register_arguments(_, _, _)
register_arguments(ns, func, args) ==
    IF args = <<>> THEN ns
    ELSE register_arguments(set_local(ns, func, ns[Head(args)].name, Head(args)),
                            func, Tail(args))

\* build_function: the new FunctionDef is node Len(ns) + 1, followed by the
\* Name node of each argument and the constant node of each default.
build_function(ns, name, args, defaults) ==
    LET k == Len(ns) + 1
        na == Len(args)
        func == [Node("FunctionDef", name) EXCEPT
                    !.args = [none |-> FALSE, elts |-> [i \in 1..na |-> k + i]],
                    !.defaults = [i \in 1..Len(defaults) |-> k + na + i]]
        ns1 == Append(ns, func)
               \o [i \in 1..na |-> [Node("Name", args[i]) EXCEPT !.parent = k]]
               \o [i \in 1..Len(defaults) |->
                      [const_factory(defaults[i]) EXCEPT !.parent = k]]
    IN IF args # <<>> THEN register_arguments(ns1, k, ns1[k].args.elts) ELSE ns1

(***************************************************************************)
(* Nodes from living objects.                                              *)
(***************************************************************************)

Unguarded__base_class_object_build(ns, node, member, basenames, name, localname, inst) ==
    LET k == Len(ns) + 1
        ns1 == build_class(ns, Or(name, Or(Heap[member].name, localname)), basenames)
        ns2 == [ns1 EXCEPT ![k].newstyle = (Heap[member].kind = "class"),
                           ![k].of = member]
        ns3 == add_local_node(ns2, node, k, localname)
        items == Heap[member].instdict
        m == Len(ns3)
        valnode(i) == [Node("EmptyNode", None) EXCEPT !.object = items[i][2],
                                                      !.parent = k, !.lineno = 1]
        ns4 == ns3 \o [i \in 1..Len(items) |-> valnode(i)]
    IN IF Heap[member].kind = "class" /\ Heap[member].exc
       THEN [ns4 EXCEPT ![k].instance_attrs =
                [key \in {items[i][1] : i \in DOMAIN items} |->
                    <<m + (CHOOSE i \in DOMAIN items : items[i][1] = key)>>]]
       ELSE ns3

\* _base_class_object_build: the new ClassDef is node Len(ns) + 1.  `inst` is
\* whether member() returns, should the code call it.
_base_class_object_build(ns, node, member, basenames, name, localname, inst) ==
    LET k == Len(ns) + 1
        ns1 == build_class(ns, Or(name, Or(Heap[member].name, localname)), basenames)
        ns2 == [ns1 EXCEPT ![k].newstyle = (Heap[member].kind = "class"),
                           ![k].of = member]
        ns3 == add_local_node(ns2, node, k, localname)
        \* issubclass raises TypeError when member is no class
        instantiated == Heap[member].kind = "class" /\ Heap[member].exc /\ inst
        items == Heap[member].instdict
        m == Len(ns3)
        valnode(i) == [Node("EmptyNode", None) EXCEPT !.object = items[i][2],
                                                      !.parent = k, !.lineno = 1]
        ns4 == ns3 \o [i \in 1..Len(items) |-> valnode(i)]
    IN IF instantiated
       THEN [ns4 EXCEPT ![k].instance_attrs =
                [key \in {items[i][1] : i \in DOMAIN items} |->
                    <<m + (CHOOSE i \in DOMAIN items : items[i][1] = key)>>]]
       ELSE ns3

object_build_class(ns, node, member, localname, inst) ==
    _base_class_object_build(ns, node, member, Heap[member].bases, None,
                             localname, inst)

object_build_datadescriptor(ns, node, member, name) ==
    _base_class_object_build(ns, node, member, <<>>, name, None, TRUE)

\* inspect.getargspec gives the living function's args and defaults.
object_build_function(ns, node, member, localname) ==
    LET func == Len(ns) + 1
        ns1 == build_function(ns, Or(Heap[member].name, localname),
                              Heap[member].args, Heap[member].defaults)
    IN add_local_node([ns1 EXCEPT ![func].of = member], node, func, localname)

KeepEmptyArgs_object_build_methoddescriptor(ns, node, member, localname) ==
    LET func == Len(ns) + 1
        ns1 == build_function(ns, Or(Heap[member].name, localname), <<>>, <<>>)
    IN add_local_node([ns1 EXCEPT ![func].of = member], node, func, localname)

object_build_methoddescriptor(ns, node, member, localname) ==
    LET func == Len(ns) + 1
        ns1 == build_function(ns, Or(Heap[member].name, localname), <<>>, <<>>)
        ns2 == [ns1 EXCEPT ![func].args.none = TRUE, ![func].args.elts = <<>>,
                           ![func].of = member]
    IN add_local_node(ns2, node, func, localname)

AnyFile__build_from_function(ns, node, name, member, module) ==
    IF Heap[member].file = None
    THEN object_build_methoddescriptor(ns, node, member, name)
    ELSE object_build_function(ns, node, member, name)

\* _build_from_function: filename is None when the member has no code object.
_build_from_function(ns, node, name, member, module) ==
    LET filename == Heap[member].file
    IN IF filename = None
       THEN object_build_methoddescriptor(ns, node, member, name)
       ELSE IF filename # Heap[module].file
       THEN attach_dummy_node(ns, node, name, member)
       ELSE object_build_function(ns, node, member, name)

_io_discrepancy(member) ==
    LET member_self == Heap[member].self
    IN /\ member_self # None
       /\ Heap[member_self].kind = "module"
       /\ Heap[member_self].name = "_io"
       /\ Heap[member].module = "io"

\* vars(builtins)
_BUILTINS == Range(Heap["builtins"].dir)

\* The module name imported_member works with: __module__, None when reading
\* it raises, and builtins for the names whose __module__ is known to be None.
declaring_module(member, name, jython) ==
    LET modname == IF Heap[member].module = "RAISES" THEN None
                   ELSE Heap[member].module
    IN IF modname = None
          /\ (name \in {"__new__", "__subclasshook__"}
              \/ (name \in _BUILTINS /\ jython))
       THEN "builtins" ELSE modname

real_name(modname) ==
    CASE modname = "gtk" -> "gtk_gtk"
      [] modname = "_io" -> "io"
      [] OTHER -> modname

RegisteredOnly_probe(registry, modname, name) == modname \in registry

\* getattr(sys.modules[modname], name) returns
probe(registry, modname, name) ==
    /\ modname \in registry
    /\ name \in Range(Heap[modname].dir) \cup ObjectNames

\* InspectBuilder.imported_member: ret is what it returns, ns the nodes after.
imported_member(ns, node, member, name, module, registry, jython) ==
    LET modname == declaring_module(member, name, jython)
    IN IF modname = None
       THEN [ret |-> TRUE, ns |-> attach_dummy_node(ns, node, name, member)]
       ELSE IF real_name(modname) # Heap[module].name
       THEN [ret |-> TRUE,
             ns |-> IF probe(registry, modname, name)
                    THEN attach_import_node(ns, node, modname, name)
                    ELSE attach_dummy_node(ns, node, name, member)]
       ELSE [ret |-> FALSE, ns |-> ns]

(***************************************************************************)
(* The state.                                                              *)
(***************************************************************************)
VARIABLES
    nodes,            \* every node built so far
    _done,            \* InspectBuilder._done: living object -> node
    _module,          \* InspectBuilder._module
    stack,            \* the frames of object_build, innermost last
    astroid_cache,    \* MANAGER.astroid_cache: module name -> Module node
    astroid_builtin,  \* _astroid_bootstrapping's astroid_builtin
    todo,             \* the keys of CONST_CLS its loop has yet to visit
    _CONST_PROXY,     \* constant type -> ClassDef
    _proxied,         \* the _proxied set on a node class: class name -> ClassDef
    sys_modules,      \* the names registered in sys.modules
    _JYTHON,          \* os.name == 'java'
    phase,            \* where the program is
    builds,           \* inspect_build calls made by clients
    inv,              \* history: the builder invocations started so far
    ev                \* history: what the last step did

vars == <<nodes, _done, _module, stack, astroid_cache, astroid_builtin, todo,
          _CONST_PROXY, _proxied, sys_modules, _JYTHON, phase, builds, inv, ev>>

(***************************************************************************)
(* History of the last step.  op is what it was (for an iteration of       *)
(* object_build, the branch taken), node, obj and name what it worked on,  *)
(* member the member it classified, before the number of nodes and locals0 *)
(* the locals of node when it began.  foreign tells what imported_member   *)
(* returned ("True", "False"), or that the iteration did not call it       *)
(* ("skipped" for lines 288-289, "n/a" elsewhere); imlen and imlocals are  *)
(* the number of nodes and the locals of node when it returned.  fresh     *)
(* tells that the class was built and not found done, inst whether its     *)
(* instantiation returned ("ok", "failed") or was not tried ("n/a").       *)
(***************************************************************************)
NoEvent ==
    [op |-> "none", node |-> 0, obj |-> None, name |-> None, member |-> None,
     foreign |-> "n/a", before |-> 0, locals0 |-> EmptyMap, fresh |-> FALSE,
     inst |-> "n/a", imlen |-> 0, imlocals |-> EmptyMap]

Init ==
    /\ nodes = <<>>
    /\ _done = EmptyMap
    /\ _module = None
    /\ stack = <<>>
    /\ astroid_cache = EmptyMap
    /\ astroid_builtin = 0
    /\ todo = {}
    /\ _CONST_PROXY = EmptyMap
    /\ _proxied = EmptyMap
    /\ sys_modules \in {{"builtins", "m", "_io", "io", "other"},
                        {"builtins", "m", "_io", "io"}}
    /\ _JYTHON \in BOOLEAN
    /\ phase = "import"
    /\ builds = 0
    /\ inv = 0
    /\ ev = NoEvent

(***************************************************************************)
(* InspectBuilder.object_build, one iteration of its loop at a time.  A    *)
(* frame holds the node and the object of the call and the names of        *)
(* dir(obj) still to visit; `wait` is the class node whose object_build    *)
(* the iteration is waiting for (0: none); `att` is history: for each name *)
(* visited, the nodes this pass has bound under it.                        *)
(***************************************************************************)
Top == stack[Len(stack)]

Frame(node, obj) ==
    [node |-> node, obj |-> obj, names |-> Heap[obj].dir, wait |-> 0,
     att |-> EmptyMap]

\* What getattr(obj, name) may do.
Fetches(obj, name) ==
    IF <<obj, name>> \in Flaky THEN {"ok", "AttributeError", "Error"} ELSE {"ok"}

\* The member the iteration classifies: a method is replaced by its function.
Member(obj, name) ==
    LET member == Heap[obj].attr[name]
    IN IF Heap[member].kind = "method" THEN Heap[member].func ELSE member

\* The nodes ns1 has bound under name in node beyond those of ns0.
Attached(ns0, ns1, node, name) ==
    LET old == IF name \in DOMAIN ns0[node].locals
               THEN Len(ns0[node].locals[name]) ELSE 0
    IN IF name \in DOMAIN ns1[node].locals
       THEN SubSeq(ns1[node].locals[name], old + 1, Len(ns1[node].locals[name]))
       ELSE <<>>

\* History: the nodes built during this step belong to invocation i.
Stamp(ns1, i) ==
    [k \in 1..Len(ns1) |->
        IF k > Len(nodes) THEN [ns1[k] EXCEPT !.inv = i] ELSE ns1[k]]

\* The top frame once the iteration over its first name is over.
Visited(frame, ns1) ==
    [frame EXCEPT !.names = Tail(@), !.wait = 0,
                  !.att = (Head(frame.names)
                           :> Attached(nodes, ns1, frame.node, Head(frame.names))) @@ @]

Event(op, member, foreign) ==
    [op |-> op, node |-> Top.node, obj |-> Top.obj, name |-> Head(Top.names),
     member |-> member, foreign |-> foreign, before |-> Len(nodes),
     locals0 |-> nodes[Top.node].locals, fresh |-> FALSE, inst |-> "n/a",
     imlen |-> 0, imlocals |-> EmptyMap]

\* The event of an iteration that has called imported_member, which gave im.
Decided(op, member, im) ==
    [Event(op, member, IF im.ret THEN "True" ELSE "False") EXCEPT
        !.imlen = Len(im.ns), !.imlocals = im.ns[Top.node].locals]

Running == phase \in {"boot_inspect", "generator", "inspect"}

\* The iteration on the first name of the top frame finds a member of `kind`.
Visiting(kind) ==
    /\ Running
    /\ stack # <<>>
    /\ Top.names # <<>>
    /\ "ok" \in Fetches(Top.obj, Head(Top.names))
    /\ Heap[Member(Top.obj, Head(Top.names))].kind = kind

\* The iteration ends (`continue`, or the end of the loop body) with nodes ns1.
Continue(ns1, event) ==
    /\ nodes' = Stamp(ns1, inv)
    /\ stack' = [stack EXCEPT ![Len(stack)] = Visited(Top, ns1)]
    /\ ev' = event
    /\ UNCHANGED <<_done, _module, astroid_cache, astroid_builtin, todo,
                   _CONST_PROXY, _proxied, sys_modules, _JYTHON, phase,
                   builds, inv>>

\* object_build on entry: an object already done is not visited again.
NoMemo_object_build_enter(done, st, node, obj) ==
    [done |-> done, stack |-> Append(st, Frame(node, obj))]

object_build_enter(done, st, node, obj) ==
    IF obj \in DOMAIN done
    THEN [done |-> done, stack |-> st]
    ELSE [done |-> (obj :> node) @@ done, stack |-> Append(st, Frame(node, obj))]

NoDummy_GetattrAttributeError ==
    /\ Running /\ stack # <<>> /\ Top.names # <<>>
    /\ "AttributeError" \in Fetches(Top.obj, Head(Top.names))
    /\ Continue(nodes, Event("AttributeError", None, "n/a"))

\* getattr raises AttributeError: a dummy node, and the next name.
GetattrAttributeError ==
    /\ Running /\ stack # <<>> /\ Top.names # <<>>
    /\ "AttributeError" \in Fetches(Top.obj, Head(Top.names))
    /\ Continue(attach_dummy_node(nodes, Top.node, Head(Top.names), _marker),
                Event("AttributeError", None, "n/a"))

\* getattr raises anything else: nothing catches it, inspect_build is left.
GetattrRaises ==
    /\ Running /\ stack # <<>> /\ Top.names # <<>>
    /\ "Error" \in Fetches(Top.obj, Head(Top.names))
    /\ stack' = <<>>
    /\ phase' = "ready"
    /\ ev' = Event("propagated", None, "n/a")
    /\ UNCHANGED <<nodes, _done, _module, astroid_cache, astroid_builtin, todo,
                   _CONST_PROXY, _proxied, sys_modules, _JYTHON, builds, inv>>

MemberFunction ==
    /\ Visiting("function")
    /\ LET member == Member(Top.obj, Head(Top.names))
       IN Continue(_build_from_function(nodes, Top.node, Head(Top.names),
                                        member, _module),
                   Event("function", member, "n/a"))

MemberBuiltin ==
    /\ Visiting("builtin")
    /\ LET member == Member(Top.obj, Head(Top.names))
           name == Head(Top.names)
           skip == _io_discrepancy(member)
           im == imported_member(nodes, Top.node, member, name, _module,
                                 sys_modules, _JYTHON)
       IN IF ~skip /\ im.ret
          THEN Continue(im.ns, Decided("builtin", member, im))
          ELSE Continue(object_build_methoddescriptor(nodes, Top.node, member, name),
                        IF skip THEN Event("builtin", member, "skipped")
                        ELSE Decided("builtin", member, im))

\* lines 303-304
anchor(ns, name, class_node, done, module) ==
    IF name = "__class__" /\ ns[class_node].parent = 0
    THEN [ns EXCEPT ![class_node].parent = done[module]] ELSE ns

Rebuild_bind_done_class(ns, node, class_node, name) ==
    add_local_node(Append(ns, [ns[class_node] EXCEPT !.parent = 0,
                                                     !.locals = EmptyMap]),
                   node, Len(ns) + 1, name)

\* lines 295-298: the class is done already
bind_done_class(ns, node, class_node, name) ==
    IF name \notin DOMAIN ns[node].locals
       \/ class_node \notin Range(ns[node].locals[name])
    THEN add_local_node(ns, node, class_node, name) ELSE ns

MemberClass ==
    /\ Visiting("class")
    /\ LET member == Member(Top.obj, Head(Top.names))
           name == Head(Top.names)
           im == imported_member(nodes, Top.node, member, name, _module,
                                 sys_modules, _JYTHON)
           class_node == Len(nodes) + 1
       IN IF im.ret
          THEN Continue(im.ns, Decided("class", member, im))
          ELSE IF member \in DOMAIN _done
          THEN Continue(anchor(bind_done_class(nodes, Top.node, _done[member], name),
                               name, _done[member], _done, _module),
                        Decided("class", member, im))
          ELSE \E inst \in (IF Heap[member].raises THEN BOOLEAN ELSE {TRUE}) :
                 LET ns1 == object_build_class(nodes, Top.node, member, name, inst)
                     caller == [Top EXCEPT !.wait = class_node,
                                   !.att = (name :> Attached(nodes, ns1, Top.node, name)) @@ @]
                     in == object_build_enter(_done,
                              [stack EXCEPT ![Len(stack)] = caller],
                              class_node, member)
                 IN /\ Len(stack) < MaxDepth
                    /\ nodes' = Stamp(ns1, inv)
                    /\ _done' = in.done
                    /\ stack' = in.stack
                    /\ ev' = [Decided("class", member, im) EXCEPT
                                 !.fresh = TRUE,
                                 !.inst = IF ~Heap[member].exc THEN "n/a"
                                          ELSE IF inst THEN "ok" ELSE "failed"]
                    /\ UNCHANGED <<_module, astroid_cache, astroid_builtin, todo,
                                   _CONST_PROXY, _proxied, sys_modules, _JYTHON,
                                   phase, builds, inv>>

MemberMethodDescriptor ==
    /\ Visiting("methoddescriptor")
    /\ LET member == Member(Top.obj, Head(Top.names))
       IN Continue(object_build_methoddescriptor(nodes, Top.node, member,
                                                 Head(Top.names)),
                   Event("methoddescriptor", member, "n/a"))

MemberDataDescriptor ==
    /\ Visiting("datadescriptor")
    /\ LET member == Member(Top.obj, Head(Top.names))
       IN Continue(object_build_datadescriptor(nodes, Top.node, member,
                                               Head(Top.names)),
                   Event("datadescriptor", member, "n/a"))

MemberConstant ==
    /\ Visiting("const")
    /\ LET member == Member(Top.obj, Head(Top.names))
       IN /\ Heap[member].type \in _CONSTANTS
          /\ Continue(attach_const_node(nodes, Top.node, Head(Top.names), member),
                      Event("const", member, "n/a"))

\* a routine that none of the tests above knows
MemberRoutine ==
    /\ Visiting("routine")
    /\ LET member == Member(Top.obj, Head(Top.names))
       IN Continue(_build_from_function(nodes, Top.node, Head(Top.names),
                                        member, _module),
                   Event("routine", member, "n/a"))

MemberOther ==
    /\ Visiting("other")
    /\ LET member == Member(Top.obj, Head(Top.names))
       IN Continue(attach_dummy_node(nodes, Top.node, Head(Top.names), member),
                   Event("other", member, "n/a"))

\* The loop of the top frame is over: object_build returns.  Its caller is
\* the iteration of the frame below, which ends with lines 303-304, or
\* inspect_build, or the import of the module.
Return ==
    /\ Running /\ stack # <<>> /\ Top.names = <<>>
    /\ LET rest == SubSeq(stack, 1, Len(stack) - 1)
       IN IF rest = <<>>
          THEN /\ stack' = <<>>
               /\ nodes' = nodes
               /\ phase' = IF phase = "boot_inspect" THEN "boot_proxies" ELSE "ready"
               /\ astroid_builtin' = IF phase = "boot_inspect" THEN Top.node
                                     ELSE astroid_builtin
               /\ todo' = IF phase = "boot_inspect" THEN DOMAIN CONST_CLS ELSE todo
          ELSE LET caller == rest[Len(rest)]
               IN /\ nodes' = anchor(nodes, Head(caller.names), caller.wait,
                                     _done, _module)
                  /\ stack' = [rest EXCEPT ![Len(rest)] =
                                 [caller EXCEPT !.names = Tail(@), !.wait = 0]]
                  /\ UNCHANGED <<phase, astroid_builtin, todo>>
    /\ ev' = [NoEvent EXCEPT !.op = "return", !.node = Top.node, !.obj = Top.obj,
                             !.before = Len(nodes)]
    /\ UNCHANGED <<_done, _module, astroid_cache, _CONST_PROXY, _proxied,
                   sys_modules, _JYTHON, builds, inv>>

(***************************************************************************)
(* inspect_build, the bootstrap and the import of the module.              *)
(***************************************************************************)

\* MANAGER.cache_module: astroid_cache.setdefault(module.name, module)
cache_module(cache, name, node) ==
    IF name \in DOMAIN cache THEN cache ELSE (name :> node) @@ cache

\* line 265
KeepDone_reset_done(done) == done

reset_done(done) == EmptyMap

\* InspectBuilder.inspect_build(module), up to the first iteration of
\* object_build; `running` is the phase of the program while it runs.
inspect_build(module, running) ==
    LET node == Len(nodes) + 1
        modname == Heap[module].name
        ns1 == build_module(nodes, modname)
        ns2 == [ns1 EXCEPT ![node].file = None, ![node].name = modname,
                           ![node].package = Heap[module].path,
                           ![node].of = module]
        in == object_build_enter(reset_done(_done), <<>>, node, module)
    IN /\ _module' = module
       /\ nodes' = Stamp(ns2, inv + 1)
       /\ astroid_cache' = cache_module(astroid_cache, modname, node)
       /\ _done' = in.done
       /\ stack' = in.stack
       /\ inv' = inv + 1
       /\ phase' = IF in.stack = <<>> THEN "ready" ELSE running
       /\ ev' = [NoEvent EXCEPT !.op = "inspect_build", !.node = node,
                                !.obj = module, !.before = Len(nodes)]

\* _astroid_bootstrapping() at line 387 starts with inspect_build(builtins).
BootstrapInspect ==
    /\ phase = "import"
    /\ inspect_build("builtins", "boot_inspect")
    /\ UNCHANGED <<astroid_builtin, todo, _CONST_PROXY, _proxied, sys_modules,
                   _JYTHON, builds>>

\* Module.getattr(name)[0] of a name the module binds
module_getattr0(ns, module, name) == ns[module].locals[name][1]

TupleInTable_ContainerTypes == {"dict", "list", "set"}

\* the types whose proxy goes to their node class, lines 381-382
ContainerTypes == {"dict", "list", "set", "tuple"}

\* One iteration of the loop of _astroid_bootstrapping, on the type cls.
bootstrap_proxy(ns, builtin, table, proxied, cls) ==
    LET synthesized == cls \in {"NoneType", "NotImplementedType"}
        ns1 == IF synthesized
               THEN [build_class(ns, cls, <<>>) EXCEPT ![Len(ns) + 1].parent = builtin]
               ELSE ns
        proxy == IF synthesized THEN Len(ns) + 1
                 ELSE module_getattr0(ns, builtin, cls)
    IN IF cls \in ContainerTypes
       THEN [ns |-> ns1, table |-> table,
             proxied |-> (CONST_CLS[cls] :> proxy) @@ proxied]
       ELSE [ns |-> ns1, table |-> (cls :> proxy) @@ table, proxied |-> proxied]

BootstrapProxy(cls) ==
    /\ phase = "boot_proxies"
    /\ cls \in todo
    /\ LET r == bootstrap_proxy(nodes, astroid_builtin, _CONST_PROXY, _proxied, cls)
       IN /\ nodes' = Stamp(r.ns, inv)
          /\ _CONST_PROXY' = r.table
          /\ _proxied' = r.proxied
    /\ todo' = todo \ {cls}
    /\ ev' = [NoEvent EXCEPT !.op = "proxy", !.name = cls, !.before = Len(nodes)]
    /\ UNCHANGED <<_done, _module, stack, astroid_cache, astroid_builtin,
                   sys_modules, _JYTHON, phase, builds, inv>>

\* nodes.Const._proxied, read
_set_proxied(const) == _CONST_PROXY[Heap[nodes[const].value].type]

\* Lines 392-399, once the bootstrap has returned: the generator class is
\* built by hand and given to object_build.
ImportGenerator ==
    /\ phase = "boot_proxies"
    /\ todo = {}
    /\ LET k == Len(nodes) + 1
           _GeneratorType == [Node("ClassDef", Heap["generator"].name) EXCEPT
                                 !.parent = astroid_cache["builtins"],
                                 !.of = "generator"]
           in == object_build_enter(_done, <<>>, k, "generator")
       IN /\ nodes' = Stamp(Append(nodes, _GeneratorType), inv + 1)
          /\ _proxied' = ("Generator" :> k) @@ _proxied
          /\ _done' = in.done
          /\ stack' = in.stack
          /\ phase' = IF in.stack = <<>> THEN "ready" ELSE "generator"
          /\ ev' = [NoEvent EXCEPT !.op = "object_build", !.node = k,
                                   !.obj = "generator", !.before = Len(nodes)]
    /\ inv' = inv + 1
    /\ UNCHANGED <<_module, astroid_cache, astroid_builtin, todo, _CONST_PROXY,
                   sys_modules, _JYTHON, builds>>

\* A client calls Astroid_BUILDER.inspect_build(module).
InspectBuild(module) ==
    /\ phase = "ready"
    /\ builds < MaxBuilds
    /\ builds' = builds + 1
    /\ inspect_build(module, "inspect")
    /\ UNCHANGED <<astroid_builtin, todo, _CONST_PROXY, _proxied, sys_modules,
                   _JYTHON>>

Next ==
    \/ BootstrapInspect
    \/ \E cls \in DOMAIN CONST_CLS : BootstrapProxy(cls)
    \/ ImportGenerator
    \/ \E module \in ClientModules : InspectBuild(module)
    \/ GetattrAttributeError
    \/ GetattrRaises
    \/ MemberFunction
    \/ MemberBuiltin
    \/ MemberClass
    \/ MemberMethodDescriptor
    \/ MemberDataDescriptor
    \/ MemberConstant
    \/ MemberRoutine
    \/ MemberOther
    \/ Return

Spec == Init /\ [][Next]_vars

\* The program is single-threaded and runs each call to its end.
FairSpec == Spec /\ WF_vars(Next)

(***************************************************************************)
(* Properties.                                                             *)
(***************************************************************************)

\* The nodes the last step has bound under its name in its node.
NewlyBound ==
    LET l == nodes[ev.node].locals
        old == IF ev.name \in DOMAIN ev.locals0 THEN Len(ev.locals0[ev.name]) ELSE 0
    IN IF ev.name \in DOMAIN l THEN SubSeq(l[ev.name], old + 1, Len(l[ev.name]))
       ELSE <<>>

\* The ClassDef nodes invocation i has built for the living object o.
ClassDefsOf(o, i) ==
    {k \in DOMAIN nodes : nodes[k].kind = "ClassDef" /\ nodes[k].of = o
                          /\ nodes[k].inv = i}

\* The last step met a class that was done, and bound its node once more.
Reused ==
    /\ Len(nodes) = ev.before
    /\ ev.member \in DOMAIN _done
    /\ ev.name \in DOMAIN nodes[ev.node].locals
    /\ _done[ev.member] \in Range(nodes[ev.node].locals[ev.name])

OneNodePerClass ==
    /\ \A o \in Objects : \A i \in 1..inv :
          Heap[o].kind = "class" => Cardinality(ClassDefsOf(o, i)) <= 1
    /\ \A f \in Range(stack) :
          Heap[f.obj].kind = "class" =>
             ClassDefsOf(f.obj, nodes[f.node].inv) = {f.node}
    /\ \A o \in DOMAIN _done : nodes[_done[o]].of = o
    /\ (ev.op = "class" /\ ev.foreign = "False" /\ ~ev.fresh) => Reused

\* C1: every build ends, also on a cycle of the living objects (A.b is A,
\* type.__class__ is type); the class on the cycle gets exactly one ClassDef,
\* and meeting it again binds that node under the further name and builds
\* nothing.
C1_CycleTerminates == [](OneNodePerClass) /\ (Running ~> ~Running)

\* A class has been met again from inside its own object_build, and its one
\* node is bound under a second name.
C1_Witness ==
    /\ ev.op = "class" /\ ev.foreign = "False" /\ ~ev.fresh
    /\ ev.member = ev.obj
    /\ Cardinality(ClassDefsOf(ev.member, inv)) = 1
    /\ \E k \in DOMAIN nodes : \E name \in DOMAIN nodes[k].locals :
          /\ <<k, name>> # <<ev.node, ev.name>>
          /\ _done[ev.member] \in Range(nodes[k].locals[name])

\* The living object a node stands for.
NodeObject(k) ==
    IF nodes[k].kind = "EmptyNode" THEN nodes[k].object ELSE nodes[k].of

NodesOf(o, i) == {k \in DOMAIN nodes : NodeObject(k) = o /\ nodes[k].inv = i}

LocalKinds == {"FunctionDef", "ClassDef", "Const", "ImportFrom", "EmptyNode"}

\* The pass of frame f has bound exactly one node under name.
ExactlyOne(f, name) ==
    /\ name \in DOMAIN nodes[f.node].locals
    /\ Len(f.att[name]) = 1
    /\ nodes[f.att[name][1]].kind \in LocalKinds

\* name holds a constant and is a name the node of frame f reserves.
Reserved(f, name) ==
    /\ Heap[Member(f.obj, name)].kind = "const"
    /\ name \in special_attributes(nodes[f.node].kind)

\* C3, as claimed: every name of dir(obj) that a pass has visited is bound
\* in the node, by exactly one node of one sort.
C3_Original ==
    \A f \in Range(stack) : \A name \in DOMAIN f.att : ExactlyOne(f, name)

\* C3, amended: a name that holds a constant and that the node reserves as a
\* special attribute gets no node and is not bound; every other name visited
\* is bound by exactly one node of one sort.
C3_Amended ==
    \A f \in Range(stack) : \A name \in DOMAIN f.att :
        IF Reserved(f, name)
        THEN f.att[name] = <<>> /\ name \notin DOMAIN nodes[f.node].locals
        ELSE ExactlyOne(f, name)

\* The pass over module m is over: all of dir(m) is visited, __doc__ included.
C3_Witness ==
    \E f \in Range(stack) :
        /\ f.obj = "m" /\ f.names = <<>>
        /\ DOMAIN f.att = Range(Heap["m"].dir)
        /\ Reserved(f, "__doc__")

\* C4, as claimed: a getattr that raises, whatever it raises, leaves a
\* placeholder and never leaves inspect_build.
C4_Original ==
    /\ ev.op # "propagated"
    /\ ev.op = "AttributeError" => Running /\ stack # <<>>

\* The names of dir(obj) after name.
RECURSIVE After(_, _)
After(names, name) ==
    IF names = <<>> THEN <<>>
    ELSE IF Head(names) = name THEN Tail(names) ELSE After(Tail(names), name)

\* C4, amended: a getattr that raises AttributeError leaves a placeholder
\* with no underlying object under the name, and the walk goes on with the
\* next name; a getattr that raises anything else ends the walk and the
\* exception leaves inspect_build.
C4_Amended ==
    /\ ev.op = "AttributeError" =>
          /\ Len(nodes) = ev.before + 1
          /\ NewlyBound = <<Len(nodes)>>
          /\ nodes[Len(nodes)].kind = "EmptyNode"
          /\ ~_has_underlying_object(nodes[Len(nodes)])
          /\ Running /\ stack # <<>>
          /\ Top.node = ev.node /\ Top.obj = ev.obj
          /\ Top.names = After(Heap[ev.obj].dir, ev.name)
    /\ ev.op = "propagated" => stack = <<>> /\ ~Running /\ Len(nodes) = ev.before

\* getattr(m, "bad") has raised AttributeError and names of m are left.
C4_Witness == ev.op = "AttributeError" /\ ev.name = "bad" /\ Top.names # <<>>

\* The member of the last step was declared by another module, which is
\* registered and has the name; for a function, its code is of another file.
\* A routine of _io that says io is declared by _io, and a module that goes by
\* two names (_io and io) is one module.
ReExported ==
    LET modname == IF _io_discrepancy(ev.member)
                   THEN Heap[Heap[ev.member].self].name
                   ELSE Heap[ev.member].module
    IN /\ modname \notin {None, "RAISES"}
       /\ real_name(modname) # real_name(Heap[_module].name)
       /\ modname \in sys_modules
       /\ ev.name \in Range(Heap[modname].dir) \cup ObjectNames
       /\ ev.op = "function" =>
             Heap[ev.member].file \notin {None, Heap[_module].file}

ImportOf(k, modname, name) ==
    /\ nodes[k].kind = "ImportFrom"
    /\ nodes[k].modname = modname
    /\ nodes[k].names = <<name>>

ClassBuilt == (ev.op = "class" /\ ev.fresh) \/ ev.op = "datadescriptor"

\* C6: the class-building step always binds and returns the ClassDef and the
\* walk goes on; the class is instantiated only if it is a subclass of
\* Exception; when that fails, or is not tried, the ClassDef has no instance
\* attribute; when it succeeds, the instance attributes are the keys of the
\* instance's __dict__, each with one placeholder of line 1 whose parent is
\* the ClassDef.
C6_HarvestSafe ==
    ClassBuilt =>
        LET klass == ev.before + 1
            member == Heap[ev.member]
            attrs == nodes[klass].instance_attrs
        IN /\ nodes[klass].kind = "ClassDef"
           /\ NewlyBound = <<klass>>
           /\ Running /\ stack # <<>>
           /\ ev.op = "class" => Top.node = klass /\ Top.obj = ev.member
           /\ ev.inst # "n/a" => member.kind = "class" /\ member.exc
           /\ ev.inst # "ok" => attrs = EmptyMap /\ Len(nodes) = klass + Len(member.bases)
           /\ ev.inst = "ok" =>
                 /\ DOMAIN attrs = {member.instdict[i][1] : i \in DOMAIN member.instdict}
                 /\ \A i \in DOMAIN member.instdict :
                       LET vals == attrs[member.instdict[i][1]]
                       IN /\ Len(vals) = 1
                          /\ nodes[vals[1]].kind = "EmptyNode"
                          /\ nodes[vals[1]].object = member.instdict[i][2]
                          /\ nodes[vals[1]].lineno = 1
                          /\ nodes[vals[1]].parent = klass

\* E() has returned and E's ClassDef holds the attribute of its instance.
C6_Witness ==
    /\ ClassBuilt /\ ev.member = "E" /\ ev.inst = "ok"
    /\ DOMAIN nodes[ev.before + 1].instance_attrs = {"code"}

\* Every entry of the memo table is of the invocation under way.
MemoIsOfThisInvocation == \A o \in DOMAIN _done : nodes[_done[o]].inv = inv

\* No node binds a node of another invocation.
BindsOwnNodes(k) ==
    \A name \in DOMAIN nodes[k].locals : \A j \in Range(nodes[k].locals[name]) :
        nodes[j].inv = nodes[k].inv

\* C7, as claimed: whichever operation starts a traversal, the memo table
\* holds nothing of an earlier invocation, and no node of an earlier
\* invocation is bound by a later one.
C7_Original ==
    /\ MemoIsOfThisInvocation
    /\ \A k \in DOMAIN nodes : BindsOwnNodes(k)

\* The invocation under way, or the last one, is the object_build that the
\* import of the module calls by itself.
DirectCall == phase = "generator" \/ (phase = "ready" /\ builds = 0)

\* C7, amended: inspect_build empties the memo table before it traverses, so
\* that its traversal meets and binds nodes of its own invocation only; the
\* object_build called by itself at import does not: it runs on the table
\* that the inspect_build of builtins has left, and binds its nodes.
C7_Amended ==
    /\ ~DirectCall => MemoIsOfThisInvocation
    /\ DirectCall =>
          /\ \A o \in DOMAIN _done : nodes[_done[o]].inv \in {inv - 1, inv}
          /\ "builtins" \in DOMAIN _done
          /\ nodes[_done["builtins"]].inv = inv - 1
    /\ \A k \in DOMAIN nodes :
          nodes[k].of # "generator" => BindsOwnNodes(k)

\* A client's inspect_build, the third invocation, has met a class again.
C7_Witness ==
    /\ phase = "inspect" /\ inv > 2
    /\ ev.op = "class" /\ ev.foreign = "False" /\ ~ev.fresh
    /\ Cardinality(DOMAIN _done) >= 2

BootstrapComplete ==
    \/ phase \in {"generator", "ready", "inspect"}
    \/ phase = "boot_proxies" /\ todo = {}

\* The proxy that the bootstrap must find for type cls, whatever its order.
ExpectedProxy(cls, proxy) ==
    /\ nodes[proxy].kind = "ClassDef"
    /\ nodes[proxy].name = cls
    /\ IF cls \in {"NoneType", "NotImplementedType"}
       THEN /\ nodes[proxy].parent = astroid_builtin
            /\ nodes[proxy].locals = EmptyMap
       ELSE proxy = nodes[astroid_builtin].locals[cls][1]

ProxyTable ==
    /\ (DOMAIN _CONST_PROXY # {} \/ DOMAIN _proxied # {}) =>
          /\ astroid_builtin # 0
          /\ phase \notin {"import", "boot_inspect"}
          /\ nodes[astroid_builtin].kind = "Module"
    /\ DOMAIN _CONST_PROXY \cap {"dict", "list", "set", "tuple"} = {}
    /\ DOMAIN _CONST_PROXY \subseteq DOMAIN CONST_CLS
    /\ BootstrapComplete =>
          /\ DOMAIN _CONST_PROXY = DOMAIN CONST_CLS \ {"dict", "list", "set", "tuple"}
          /\ \A cls \in DOMAIN _CONST_PROXY : ExpectedProxy(cls, _CONST_PROXY[cls])
          /\ \A cls \in {"dict", "list", "set", "tuple"} :
                /\ CONST_CLS[cls] \in DOMAIN _proxied
                /\ ExpectedProxy(cls, _proxied[CONST_CLS[cls]])
          /\ \A k \in DOMAIN nodes :
                nodes[k].kind = "Const" =>
                   /\ Heap[nodes[k].value].type \in DOMAIN _CONST_PROXY
                   /\ nodes[_set_proxied(k)].name = Heap[nodes[k].value].type

WrittenOnce ==
    /\ \A cls \in DOMAIN _CONST_PROXY :
          cls \in DOMAIN _CONST_PROXY' /\ _CONST_PROXY'[cls] = _CONST_PROXY[cls]
    /\ BootstrapComplete => _CONST_PROXY' = _CONST_PROXY
    /\ \A k \in DOMAIN nodes :
          (BootstrapComplete /\ nodes[k].kind = "Const") =>
             _set_proxied(k)' = _set_proxied(k)

\* C8: the proxy table is written during the bootstrap only, after builtins
\* has been reflected, each type once; when the bootstrap is over it maps
\* every constant type but dict, list, set and tuple, whose proxy is set on
\* their node class, to one ClassDef, the same whatever the order of the
\* bootstrap; the class of a Const is the entry of its value's type, the
\* same at every read.
C8_ProxyTable == [](ProxyTable) /\ [][WrittenOnce]_vars

\* After the bootstrap a Const of a client module resolves to builtins' int
\* and the Const of None to the NoneType built by the bootstrap.
C8_Witness ==
    /\ phase = "inspect"
    /\ \E k \in DOMAIN nodes :
          /\ nodes[k].kind = "Const" /\ nodes[k].inv = inv
          /\ _set_proxied(k) = nodes[astroid_builtin].locals["int"][1]
    /\ \E k \in DOMAIN nodes :
          /\ nodes[k].kind = "Const" /\ nodes[_set_proxied(k)].name = "NoneType"

\* The last step has called imported_member.
Decision == ev.op \in {"class", "builtin"} /\ ev.foreign \in {"True", "False"}

MethodDescriptorBound ==
    /\ Len(NewlyBound) = 1
    /\ nodes[NewlyBound[1]].kind = "FunctionDef"
    /\ nodes[NewlyBound[1]].args.none

\* A FunctionDef of a function with a code object has the list of its
\* arguments, empty when it has none; any other FunctionDef has None.
ArgsKnownOrNone ==
    \A k \in DOMAIN nodes :
        nodes[k].kind = "FunctionDef" =>
            LET member == Heap[nodes[k].of]
            IN IF member.kind = "function" /\ member.file # None
               THEN /\ ~nodes[k].args.none
                    /\ Len(nodes[k].args.elts) = Len(member.args)
               ELSE nodes[k].args.none /\ nodes[k].args.elts = <<>>

\* C10, as claimed: every built-in routine goes through imported_member, and
\* gets a method descriptor node only if that returns False.
C10_Original ==
    /\ ev.op = "builtin" =>
          /\ ev.foreign \in {"True", "False"}
          /\ MethodDescriptorBound <=> ev.foreign = "False"
    /\ ArgsKnownOrNone

\* C10, amended: a built-in routine goes through imported_member, and gets a
\* method descriptor node only if that returns False, unless it is a routine
\* of _io that says io, which gets one without the decision; the args of a
\* method descriptor node are None, those of a function without parameters
\* are the empty list.
C10_Amended ==
    /\ ev.op = "builtin" =>
          IF _io_discrepancy(ev.member)
          THEN ev.foreign = "skipped" /\ MethodDescriptorBound
          ELSE /\ ev.foreign \in {"True", "False"}
               /\ MethodDescriptorBound <=> ev.foreign = "False"
    /\ ArgsKnownOrNone

\* Module m has a built-in routine of its own, with args None, and k, a
\* function without parameters, with the empty list.
C10_Witness ==
    /\ ev.op = "builtin" /\ ev.member = "mbi" /\ ev.foreign = "False"
    /\ MethodDescriptorBound
    /\ \E k \in DOMAIN nodes :
          /\ nodes[k].kind = "FunctionDef" /\ nodes[k].of = "k"
          /\ ~nodes[k].args.none /\ nodes[k].args.elts = <<>>
=============================================================================
